---- MODULE Spec2Model ----
(***************************************************************************)
(* A model of the advent-of-code-2022 solvers: the shared `input` library  *)
(* (argument resolution, reading, SomeError formatting), the               *)
(* calorie-counting solver and the rock-paper-scissors solver.             *)
(*                                                                         *)
(* Text is modelled as a sequence of one-character strings.  Formatted     *)
(* output (a Display message, stdout, stderr) is a sequence of fragments:  *)
(* Lit(s) is literal text of a format string, Arg(s) is an interpolated    *)
(* value and NL is a line break.                                           *)
(*                                                                         *)
(* The texts of the model hold one-byte characters and no "\r"; the        *)
(* numbers in them are far below 2^64.                                     *)
(***************************************************************************)
EXTENDS Integers, Sequences, FiniteSets, TLC

VARIABLES
    pc,              \* position of the process / of the function under study
    prog,            \* which binary runs: its Description.name
    args,            \* env::args(): the program name followed by the tokens
    text,            \* content of the selected input source
    readable,        \* whether reading the source succeeds
    bin_name,        \* Description.bin_name
    sel,             \* Result<Input, NoInput> of Input::from_args
    consumed,        \* whether the input source has been read
    input,           \* the String handed to the solver's closure
    elves,           \* Elves.elves: a sequence of groups of calories
    max_calories,    \* local of the calorie closure
    max_calorie_sum, \* local of the calorie closure
    matches,         \* Matches<Match>.0
    strategies,      \* Matches<Strategy>.0
    matches_score,   \* local of the rock-paper-scissors closure
    strategic_score, \* local of the rock-paper-scissors closure
    error,           \* the SomeError in flight: messages from symptom to root cause
    stdout,          \* fragments written to standard output
    stderr,          \* fragments written to standard error
    status,          \* exit status, RUNNING while the process lives
    top,             \* argument of Elves::max_calorie_sum
    alternate,       \* Formatter::alternate() of the format under study
    fmt_out          \* what Display for SomeError wrote

vars == <<pc, prog, args, text, readable, bin_name, sel, consumed, input, elves,
          max_calories, max_calorie_sum, matches, strategies, matches_score,
          strategic_score, error, stdout, stderr, status, top, alternate, fmt_out>>

(***************************************************************************)
(* Bounds of the model.                                                    *)
(***************************************************************************)
MaxTextLen == 6      \* calorie texts: every text of at most this many characters
MaxRowLen == 4       \* rock-paper-scissors: every single line up to this length
MaxRows == 2         \* rock-paper-scissors: texts of up to this many lines
MaxArgs == 2         \* tokens after the program name
MaxElves == 5        \* groups handed to max_calorie_sum on its own
MaxCal == 2          \* largest calorie value of those groups
MaxTop == 3          \* largest K handed to max_calorie_sum on its own
MaxCauses == 2       \* causes below the wrapped error of a SomeError

RUNNING == -1

(***************************************************************************)
(* Fragments and text helpers.                                             *)
(***************************************************************************)
Lit(s) == [kind |-> "lit", s |-> s]
Arg(s) == [kind |-> "arg", s |-> s]
NL == [kind |-> "nl", s |-> "\n"]

RECURSIVE Str(_)
Str(chars) == IF chars = <<>> THEN "" ELSE Head(chars) \o Str(Tail(chars))

RECURSIVE CountNL(_)
CountNL(out) ==
    IF out = <<>> THEN 0
    ELSE (IF Head(out) = NL THEN 1 ELSE 0) + CountNL(Tail(out))

\* Number of text lines a piece of output occupies: the line breaks in it, plus
\* the unterminated last line if there is one.
LineCount(out) ==
    CountNL(out) + (IF out # <<>> /\ out[Len(out)] # NL THEN 1 ELSE 0)

SeqsUpTo(S, n) == UNION {[1..k -> S] : k \in 0..n}

RECURSIVE Flatten(_)
Flatten(ss) == IF ss = <<>> THEN <<>> ELSE Head(ss) \o Flatten(Tail(ss))

\* str::lines: split at "\n"; a final line needs no terminator and the empty
\* remainder after the last "\n" is not a line.
RECURSIVE SplitLines(_, _)
SplitLines(chars, cur) ==
    IF chars = <<>> THEN (IF cur = <<>> THEN <<>> ELSE <<cur>>)
    ELSE IF Head(chars) = "\n" THEN <<cur>> \o SplitLines(Tail(chars), <<>>)
    ELSE SplitLines(Tail(chars), Append(cur, Head(chars)))

Lines(chars) == SplitLines(chars, <<>>)

\* Display for u64.
DigitChar(d) == <<"0", "1", "2", "3", "4", "5", "6", "7", "8", "9">>[d + 1]

RECURSIVE FmtU64(_)
FmtU64(n) == IF n < 10 THEN DigitChar(n) ELSE FmtU64(n \div 10) \o DigitChar(n % 10)

(***************************************************************************)
(* lib/input: Description, Input::from_args, NoInput, IoError.             *)
(***************************************************************************)
CALORIE == "calorie-counting"
RPS == "rock-paper-scissors"
Progs == {CALORIE, RPS}

\* The scores the rock-paper-scissors description lists for each row:
\* <<first value, second value>>.
LookupTable ==
    [row \in {"A X", "A Y", "A Z", "B X", "B Y", "B Z", "C X", "C Y", "C Z"} |->
        CASE row = "A X" -> <<4, 3>>
          [] row = "A Y" -> <<8, 4>>
          [] row = "A Z" -> <<3, 8>>
          [] row = "B X" -> <<1, 1>>
          [] row = "B Y" -> <<5, 5>>
          [] row = "B Z" -> <<9, 9>>
          [] row = "C X" -> <<7, 2>>
          [] row = "C Y" -> <<2, 6>>
          [] row = "C Z" -> <<6, 7>>]

TableRows == <<"A X", "A Y", "A Z", "B X", "B Y", "B Z", "C X", "C Y", "C Z">>

RECURSIVE TableLines(_)
TableLines(rows) ==
    IF rows = <<>> THEN <<>>
    ELSE <<Lit("'" \o Head(rows) \o "' => "), Lit(FmtU64(LookupTable[Head(rows)][1])),
           Lit(" | "), Lit(FmtU64(LookupTable[Head(rows)][2])), NL>>
         \o TableLines(Tail(rows))

CalorieDescription ==
    <<Lit("Takes a list of numbers, zero or one per line."), NL,
      Lit("Sums all consecutive numbers not separated by an empty line,"), NL,
      Lit("then returns the largest sum and the sum of the largest 3 sums.")>>

RpsDescription ==
    <<Lit("Takes a newline separated list,"), NL,
      Lit("where each row starts with 'A', 'B', or 'C',"), NL,
      Lit("then a space, then 'X', 'Y', or 'Z'. "), NL,
      Lit("Each row is assigned a score based on the following lookup table."), NL,
      Lit("Returns the sum of scores using the first values,"), NL,
      Lit("then the sum of scores using the second values."), NL,
      Lit("-------------"), NL>>
    \o TableLines(TableRows) \o <<Lit("            ")>>

Description(p) ==
    [name |-> p,
     bin_name |-> p,
     description |-> IF p = CALORIE THEN CalorieDescription ELSE RpsDescription,
     version |-> <<0, 1, 0>>]

\* Iterator::next on the argument iterator.
ArgsNext(it) ==
    IF it = <<>> THEN [some |-> FALSE, item |-> "", rest |-> <<>>]
    ELSE [some |-> TRUE, item |-> Head(it), rest |-> Tail(it)]

\* The closure file_is of Input::from_args.
file_is(file, description) ==
    IF file.some
    THEN [tag |-> "File", file |-> file.item, description |-> description]
    ELSE [tag |-> "NoArgs", file |-> "", description |-> description]

\* A faulty variant: "--" is taken as the file name itself.
from_args_dashdash_is_file(a, description0) ==
    LET first == ArgsNext(a)
        description == IF first.some
                       THEN [description0 EXCEPT !.bin_name = first.item]
                       ELSE description0
        inp == ArgsNext(first.rest)
    IN  IF inp.some /\ inp.item \in {"--help", "-h"}
        THEN [tag |-> "Help", file |-> "", description |-> description]
        ELSE IF inp.some /\ inp.item \in {"--version", "-V"}
        THEN [tag |-> "Version", file |-> "", description |-> description]
        ELSE IF inp.some /\ inp.item \in {"--stdin", "-0"}
        THEN [tag |-> "Stdin", file |-> "", description |-> description]
        ELSE file_is(inp, description)

\* Input::from_args: Ok(File), Ok(Stdin), Err(NoArgs), Err(Help), Err(Version),
\* told apart by tag.
from_args(a, description0) ==
    LET first == ArgsNext(a)
        description == IF first.some
                       THEN [description0 EXCEPT !.bin_name = first.item]
                       ELSE description0
        inp == ArgsNext(first.rest)
    IN  IF inp.some /\ inp.item \in {"--help", "-h"}
        THEN [tag |-> "Help", file |-> "", description |-> description]
        ELSE IF inp.some /\ inp.item \in {"--version", "-V"}
        THEN [tag |-> "Version", file |-> "", description |-> description]
        ELSE IF inp.some /\ inp.item \in {"--stdin", "-0"}
        THEN [tag |-> "Stdin", file |-> "", description |-> description]
        ELSE IF inp.some /\ inp.item = "--"
        THEN file_is(ArgsNext(inp.rest), description)
        ELSE file_is(inp, description)

IsInput(r) == r.tag \in {"File", "Stdin"}

FmtVersion(d) ==
    <<Arg(d.name), Lit(" "), Arg(FmtU64(d.version[1])), Lit("."),
      Arg(FmtU64(d.version[2])), Lit("."), Arg(FmtU64(d.version[3]))>>

FmtUsage(d) == <<Lit("Usage: "), Arg(d.bin_name), Lit(" [OPTIONS] [FILE]")>>

\* Display for NoInput.
NoInput_fmt(e) ==
    CASE e.tag = "NoArgs" ->
            <<Lit("The following required argument was not provided: "),
              Lit("<FILE>"), NL, NL>>
            \o FmtUsage(e.description)
            \o <<NL, NL, Lit("For more information try '--help'")>>
      [] e.tag = "Help" ->
            FmtVersion(e.description)
            \o <<NL, Lit("Solution app for advent of code 2022."), NL>>
            \o e.description.description
            \o <<NL, NL>> \o FmtUsage(e.description)
            \o <<NL, NL, Lit("Args:"), NL,
                 Lit("    "), Lit("<FILE>"), Lit("    File to read as input"), NL, NL,
                 Lit("Options:"), NL,
                 Lit("    -h, --help       Print help information"), NL,
                 Lit("    -V, --version    Print version information"), NL,
                 Lit("    -0  --stdin      Read input from stdin instead of a file")>>
      [] e.tag = "Version" -> FmtVersion(e.description)

\* Display for IoError.
IoError_fmt(inp) ==
    IF inp.tag = "File"
    THEN <<Lit("can't read file '"), Arg(inp.file), Lit("'")>>
    ELSE <<Lit("can't read from stdin")>>

\* Display of the io::Error the operating system returns.
OsError_fmt == <<Lit("No such file or directory (os error 2)")>>

(***************************************************************************)
(* lib/input: SomeError and ErrorChain.  An error is the sequence of the   *)
(* messages of the wrapped error and of its sources, outermost first;      *)
(* Error::source is the tail.                                              *)
(***************************************************************************)
\* ErrorChain::next: the state is the rest of the chain, <<>> for None.
ErrorChain_next(it) ==
    IF it = <<>> THEN [some |-> FALSE, item |-> <<>>, rest |-> <<>>]
    ELSE [some |-> TRUE, item |-> Head(it), rest |-> Tail(it)]

\* SomeError::iter.
SomeError_iter(err) == err

\* Iterator::skip(1).
Skip1(it) == ErrorChain_next(it).rest

\* The for loop of the alternate branch of Display for SomeError.
RECURSIVE WriteCauses(_)
WriteCauses(it) ==
    LET n == ErrorChain_next(it)
    IN  IF ~n.some THEN <<>>
        ELSE <<Lit("  - ")>> \o n.item \o <<NL>> \o WriteCauses(n.rest)

\* A faulty variant: the skip(1) is forgotten, the wrapped error is listed again.
SomeError_fmt_no_skip(err, alt) ==
    IF alt
    THEN <<Lit("error: ")>> \o err[1] \o <<NL>> \o WriteCauses(SomeError_iter(err))
    ELSE err[1]

\* Display for SomeError.
SomeError_fmt(err, alt) ==
    IF alt
    THEN <<Lit("error: ")>> \o err[1] \o <<NL>> \o WriteCauses(Skip1(SomeError_iter(err)))
    ELSE err[1]

(***************************************************************************)
(* calorie-counting.  An Elf is the sequence of the calories of its        *)
(* rations.  The u64 values that occur within the bounds stay far below    *)
(* 2^64, so sums are computed without wrap-around.                         *)
(***************************************************************************)
Digits == {"0", "1", "2", "3", "4", "5", "6", "7", "8", "9"}

DigitVal(c) == CHOOSE d \in 0..9 : DigitChar(d) = c

RECURSIVE DigitsVal(_, _)
DigitsVal(chars, acc) ==
    IF chars = <<>> THEN acc
    ELSE DigitsVal(Tail(chars), acc * 10 + DigitVal(Head(chars)))

\* str::parse::<u64>: an optional "+", then one or more decimal digits.
ParseU64(line) ==
    LET digits == IF line # <<>> /\ Head(line) = "+" THEN Tail(line) ELSE line
    IN  IF line = <<>> THEN [ok |-> FALSE, val |-> 0, kind |-> "Empty"]
        ELSE IF digits = <<>> \/ \E i \in 1..Len(digits) : digits[i] \notin Digits
        THEN [ok |-> FALSE, val |-> 0, kind |-> "InvalidDigit"]
        ELSE [ok |-> TRUE, val |-> DigitsVal(digits, 0), kind |-> ""]

\* Display for ParseIntError.
ParseIntError_fmt(kind) ==
    CASE kind = "Empty" -> <<Lit("cannot parse integer from empty string")>>
      [] kind = "InvalidDigit" -> <<Lit("invalid digit found in string")>>
      [] kind = "PosOverflow" -> <<Lit("number too large to fit in target type")>>

\* Display for the calorie ParseError.
CalParseError_fmt ==
    <<Lit("expected an integer; only digits and newlines are valid input")>>

\* The for loop of Elves::try_from.
RECURSIVE TryFromLoop(_, _, _)
TryFromLoop(lines, es, rations) ==
    IF lines = <<>> THEN [ok |-> TRUE, elves |-> es, kind |-> "", line |-> <<>>]
    ELSE IF Head(lines) = <<>>
    THEN TryFromLoop(Tail(lines), Append(es, rations), <<>>)
    ELSE LET calories == ParseU64(Head(lines))
         IN  IF calories.ok
             THEN TryFromLoop(Tail(lines), es, Append(rations, calories.val))
             ELSE [ok |-> FALSE, elves |-> <<>>, kind |-> calories.kind,
                   line |-> Head(lines)]

\* Elves::try_from.  On failure, line is the line that did not parse; the
\* error value built from it keeps only the kind.
Elves_try_from(calories) == TryFromLoop(Lines(calories), <<>>, <<>>)

RECURSIVE Sum(_)
Sum(xs) == IF xs = <<>> THEN 0 ELSE Head(xs) + Sum(Tail(xs))

Max2(a, b) == IF a >= b THEN a ELSE b

RECURSIVE ElfSums(_)
ElfSums(es) == IF es = <<>> THEN <<>> ELSE <<Sum(Head(es))>> \o ElfSums(Tail(es))

RECURSIVE IterMax(_)
IterMax(xs) ==
    IF xs = <<>> THEN [some |-> FALSE, val |-> 0]
    ELSE LET m == IterMax(Tail(xs))
         IN  [some |-> TRUE, val |-> IF m.some THEN Max2(Head(xs), m.val) ELSE Head(xs)]

\* Elves::max_calories: Iterator::max, then Option::unwrap, which panics on None.
Elves_max_calories(es) ==
    LET m == IterMax(ElfSums(es))
    IN  [panicked |-> ~m.some, val |-> m.val]

\* slice::sort_unstable on u64.
RECURSIVE Insert(_, _)
Insert(x, sorted) ==
    IF sorted = <<>> THEN <<x>>
    ELSE IF x <= Head(sorted) THEN <<x>> \o sorted
    ELSE <<Head(sorted)>> \o Insert(x, Tail(sorted))

RECURSIVE SortUnstable(_)
SortUnstable(xs) == IF xs = <<>> THEN <<>> ELSE Insert(Head(xs), SortUnstable(Tail(xs)))

\* A faulty variant: the smallest slot is overwritten without the comparison.
FoldTops_no_max(tops, calories, k) ==
    IF Len(tops) < k THEN Append(tops, calories)
    ELSE LET sorted == SortUnstable(tops)
         IN  IF sorted = <<>> THEN sorted
             ELSE [sorted EXCEPT ![1] = calories]

\* The closure folded by Elves::max_calorie_sum.
FoldTops(tops, calories, k) ==
    IF Len(tops) < k THEN Append(tops, calories)
    ELSE LET sorted == SortUnstable(tops)
         IN  IF sorted = <<>> THEN sorted
             ELSE [sorted EXCEPT ![1] = Max2(calories, sorted[1])]

RECURSIVE Fold(_, _, _)
Fold(sums, tops, k) ==
    IF sums = <<>> THEN tops ELSE Fold(Tail(sums), FoldTops(tops, Head(sums), k), k)

\* Elves::max_calorie_sum.
Elves_max_calorie_sum(es, k) == Sum(Fold(ElfSums(es), <<>>, k))

(***************************************************************************)
(* rock-paper-scissors.                                                    *)
(***************************************************************************)
Hands == {"Rock", "Paper", "Scissors"}
Outcomes == {"Loss", "Draw", "Win"}

\* Iterator::next on row.chars().
CharsNext(it) ==
    IF it = <<>> THEN [some |-> FALSE, item |-> "", rest |-> <<>>]
    ELSE [some |-> TRUE, item |-> Head(it), rest |-> Tail(it)]

\* row[k..] for a row whose first k characters are one byte each.
SliceFrom(row, k) == SubSeq(row, k + 1, Len(row))

RowErr(invalid) == [ok |-> FALSE, left |-> "", right |-> "", invalid |-> invalid]

\* A faulty variant: the separator failure reports the text from index 2.
Row_from_str_off_by_one(row) ==
    LET c1 == CharsNext(row)
        c2 == CharsNext(c1.rest)
        c3 == CharsNext(c2.rest)
        c4 == CharsNext(c3.rest)
    IN  IF ~(c1.some /\ c1.item \in {"A", "B", "C"}) THEN RowErr(SliceFrom(row, 0))
        ELSE IF ~(c2.some /\ c2.item = " ") THEN RowErr(SliceFrom(row, 2))
        ELSE IF ~(c3.some /\ c3.item \in {"X", "Y", "Z"}) THEN RowErr(SliceFrom(row, 2))
        ELSE IF c4.some THEN RowErr(SliceFrom(row, 3))
        ELSE [ok |-> TRUE, left |-> c1.item, right |-> c3.item, invalid |-> <<>>]

\* Row::from_str.
Row_from_str(row) ==
    LET c1 == CharsNext(row)
        c2 == CharsNext(c1.rest)
        c3 == CharsNext(c2.rest)
        c4 == CharsNext(c3.rest)
    IN  IF ~(c1.some /\ c1.item \in {"A", "B", "C"}) THEN RowErr(SliceFrom(row, 0))
        ELSE IF ~(c2.some /\ c2.item = " ") THEN RowErr(SliceFrom(row, 1))
        ELSE IF ~(c3.some /\ c3.item \in {"X", "Y", "Z"}) THEN RowErr(SliceFrom(row, 2))
        ELSE IF c4.some THEN RowErr(SliceFrom(row, 3))
        ELSE [ok |-> TRUE, left |-> c1.item, right |-> c3.item, invalid |-> <<>>]

\* From<Left> for Hand.
Hand_from_Left(left) ==
    CASE left = "A" -> "Rock" [] left = "B" -> "Paper" [] left = "C" -> "Scissors"

\* From<Right> for Hand.
Hand_from_Right(right) ==
    CASE right = "X" -> "Rock" [] right = "Y" -> "Paper" [] right = "Z" -> "Scissors"

\* From<Right> for Outcome.
Outcome_from_Right(right) ==
    CASE right = "X" -> "Loss" [] right = "Y" -> "Draw" [] right = "Z" -> "Win"

\* A faulty variant: a win is worth as much as a draw.
Outcome_score_win_3(o) ==
    CASE o = "Loss" -> 0 [] o = "Draw" -> 3 [] o = "Win" -> 3

\* Score for Outcome.
Outcome_score(o) ==
    CASE o = "Loss" -> 0 [] o = "Draw" -> 3 [] o = "Win" -> 6

\* Score for Hand.
Hand_score(h) ==
    CASE h = "Rock" -> 1 [] h = "Paper" -> 2 [] h = "Scissors" -> 3

\* Hand::match_with: the outcome for self against opponent.
match_with(self, opponent) ==
    IF <<self, opponent>> \in
           {<<"Rock", "Scissors">>, <<"Paper", "Rock">>, <<"Scissors", "Paper">>}
    THEN "Win"
    ELSE IF self = opponent THEN "Draw"
    ELSE "Loss"

\* A faulty variant: the arms for Loss and Win are exchanged.
results_in_swapped(self, outcome) ==
    CASE <<self, outcome>> \in
             {<<"Rock", "Win">>, <<"Paper", "Loss">>, <<"Scissors", "Draw">>} -> "Scissors"
      [] <<self, outcome>> \in
             {<<"Rock", "Loss">>, <<"Paper", "Draw">>, <<"Scissors", "Win">>} -> "Paper"
      [] <<self, outcome>> \in
             {<<"Rock", "Draw">>, <<"Paper", "Win">>, <<"Scissors", "Loss">>} -> "Rock"

\* Hand::results_in.
results_in(self, outcome) ==
    CASE <<self, outcome>> \in
             {<<"Rock", "Loss">>, <<"Paper", "Win">>, <<"Scissors", "Draw">>} -> "Scissors"
      [] <<self, outcome>> \in
             {<<"Rock", "Win">>, <<"Paper", "Draw">>, <<"Scissors", "Loss">>} -> "Paper"
      [] <<self, outcome>> \in
             {<<"Rock", "Draw">>, <<"Paper", "Loss">>, <<"Scissors", "Win">>} -> "Rock"

\* From<Row> for Match.
Match_from(row) ==
    [you |-> Hand_from_Right(row.right), opponent |-> Hand_from_Left(row.left)]

\* From<Row> for Strategy.
Strategy_from(row) ==
    [choice |-> Outcome_from_Right(row.right), opponent |-> Hand_from_Left(row.left)]

\* Score for Match.
Match_score(m) == Outcome_score(match_with(m.you, m.opponent)) + Hand_score(m.you)

\* Score for Strategy.
Strategy_score(st) ==
    Outcome_score(st.choice) + Hand_score(results_in(st.opponent, st.choice))

\* The collect of Matches::from_str over lines().map(Row::from_str): the first
\* Err ends it.
RECURSIVE CollectRows(_, _)
CollectRows(lines, acc) ==
    IF lines = <<>> THEN [ok |-> TRUE, rows |-> acc, invalid |-> <<>>]
    ELSE LET row == Row_from_str(Head(lines))
         IN  IF row.ok THEN CollectRows(Tail(lines), Append(acc, row))
             ELSE [ok |-> FALSE, rows |-> <<>>, invalid |-> row.invalid]

\* Matches::<Match>::from_str.
Matches_Match_from_str(inp) ==
    LET r == CollectRows(Lines(inp), <<>>)
    IN  [ok |-> r.ok, rows |-> [i \in 1..Len(r.rows) |-> Match_from(r.rows[i])],
         invalid |-> r.invalid]

\* Matches::<Strategy>::from_str.
Matches_Strategy_from_str(inp) ==
    LET r == CollectRows(Lines(inp), <<>>)
    IN  [ok |-> r.ok, rows |-> [i \in 1..Len(r.rows) |-> Strategy_from(r.rows[i])],
         invalid |-> r.invalid]

\* Score for Matches<Match>.
Matches_Match_score(ms) == Sum([i \in 1..Len(ms) |-> Match_score(ms[i])])

\* Score for Matches<Strategy>.
Matches_Strategy_score(ms) == Sum([i \in 1..Len(ms) |-> Strategy_score(ms[i])])

\* Display for the rock-paper-scissors ParseError.
RpsParseError_fmt(invalid) ==
    <<Lit("found invalid input '"), Arg(Str(invalid)), Lit("'")>>

(***************************************************************************)
(* The inputs the model runs on.                                           *)
(***************************************************************************)
Tokens == {"--help", "-h", "--version", "-V", "--stdin", "-0", "--", "input.txt"}

\* env::args(): nothing at all, or the program name and up to MaxArgs tokens.
ArgLists == {<<>>} \cup {<<"aoc">> \o t : t \in SeqsUpTo(Tokens, MaxArgs)}

CalChars == {"1", "9", "\n", "x"}

\* "3\n4\n\n5\n\n6\n7\n8\n", the same with a closing blank line, four closed
\* groups, and a number with a sign.
ExampleText == <<"3", "\n", "4", "\n", "\n", "5", "\n", "\n", "6", "\n", "7", "\n", "8", "\n">>
ExampleClosed == ExampleText \o <<"\n">>
FourGroups == <<"2", "\n", "\n", "7", "\n", "\n", "1", "\n", "\n", "4", "\n", "\n">>
SignedText == <<"+", "5", "\n", "\n">>

CalTexts ==
    SeqsUpTo(CalChars, MaxTextLen)
    \cup {ExampleText, ExampleClosed, FourGroups, SignedText}

RowChars == {"A", "B", " ", "X", "Y"}
ValidRows == {<<l, " ", r>> : l \in {"A", "B", "C"}, r \in {"X", "Y", "Z"}}
BadRows == {<<>>, <<"A">>, <<"C", " ", "Z", " ">>}

\* Each line followed by "\n".
RECURSIVE Unlines(_)
Unlines(rows) == IF rows = <<>> THEN <<>> ELSE Head(rows) \o <<"\n">> \o Unlines(Tail(rows))

ChopLast(chars) == IF chars = <<>> THEN chars ELSE SubSeq(chars, 1, Len(chars) - 1)

\* Every single line of up to MaxRowLen characters, and every text of up to
\* MaxRows rows that are valid or one of BadRows; with and without the final "\n".
RpsTexts ==
    LET terminated == {Unlines(<<l>>) : l \in SeqsUpTo(RowChars, MaxRowLen)}
                      \cup {Unlines(rows) : rows \in SeqsUpTo(ValidRows \cup BadRows, MaxRows)}
    IN  terminated \cup {ChopLast(t) : t \in terminated}

SampleText(p) == IF p = CALORIE THEN ExampleClosed ELSE <<"A", " ", "Y", "\n", "B", " ", "X", "\n">>

\* The runs: every argument list on a sample text, and every text of a solver
\* named as a file.
Scenarios ==
    {[prog |-> p, args |-> a, text |-> SampleText(p), readable |-> r] :
        p \in Progs, a \in ArgLists, r \in BOOLEAN}
    \cup {[prog |-> CALORIE, args |-> <<"aoc", "input.txt">>, text |-> t, readable |-> TRUE] :
        t \in CalTexts}
    \cup {[prog |-> RPS, args |-> <<"aoc", "input.txt">>, text |-> t, readable |-> TRUE] :
        t \in RpsTexts}

(***************************************************************************)
(* The process: input::with(description, closure).                         *)
(***************************************************************************)
Idle ==
    /\ bin_name = "" /\ sel = [tag |-> "", file |-> ""] /\ consumed = FALSE
    /\ input = <<>> /\ elves = <<>> /\ max_calories = 0 /\ max_calorie_sum = 0
    /\ matches = <<>> /\ strategies = <<>> /\ matches_score = 0 /\ strategic_score = 0
    /\ error = <<>> /\ stdout = <<>> /\ stderr = <<>> /\ status = RUNNING

Init ==
    /\ pc = "start"
    /\ \E sc \in Scenarios :
        /\ prog = sc.prog
        /\ args = sc.args
        /\ text = sc.text
        /\ readable = sc.readable
    /\ Idle
    /\ top = 3
    /\ alternate = TRUE
    /\ fmt_out = <<>>

\* get: Input::from_args(env::args(), description).
FromArgs ==
    /\ pc = "start"
    /\ LET r == from_args(args, Description(prog))
       IN  /\ sel' = [tag |-> r.tag, file |-> r.file]
           /\ bin_name' = r.description.bin_name
    /\ pc' = "from_args"
    /\ UNCHANGED <<prog, args, text, readable, consumed, input, elves, max_calories,
                   max_calorie_sum, matches, strategies, matches_score, strategic_score,
                   error, stdout, stderr, status, top, alternate, fmt_out>>

NoInputOf == [tag |-> sel.tag, description |-> [Description(prog) EXCEPT !.bin_name = bin_name]]

\* get: .map_err(NoInput::display_help)?  Help and Version are printed and the
\* process exits with 0; NoArgs becomes the SomeError that get returns.
DisplayHelp ==
    /\ pc = "from_args"
    /\ ~IsInput(sel)
    /\ IF sel.tag \in {"Help", "Version"}
       THEN /\ stdout' = stdout \o NoInput_fmt(NoInputOf) \o <<NL>>
            /\ status' = 0
            /\ pc' = "exit"
            /\ error' = error
       ELSE /\ error' = <<NoInput_fmt(NoInputOf)>>
            /\ pc' = "failed"
            /\ UNCHANGED <<stdout, status>>
    /\ UNCHANGED <<prog, args, text, readable, bin_name, sel, consumed, input, elves,
                   max_calories, max_calorie_sum, matches, strategies, matches_score,
                   strategic_score, stderr, top, alternate, fmt_out>>

\* get: Input::read_to_string()?
ReadToString ==
    /\ pc = "from_args"
    /\ IsInput(sel)
    /\ consumed' = TRUE
    /\ IF readable
       THEN /\ input' = text
            /\ pc' = "main"
            /\ error' = error
       ELSE /\ error' = <<IoError_fmt(sel), OsError_fmt>>
            /\ pc' = "failed"
            /\ input' = input
    /\ UNCHANGED <<prog, args, text, readable, bin_name, sel, elves, max_calories,
                   max_calorie_sum, matches, strategies, matches_score, strategic_score,
                   stdout, stderr, status, top, alternate, fmt_out>>

\* A faulty variant: the failure is reported but the process exits with 0.
WithErr_exit_0 ==
    /\ pc = "failed"
    /\ stderr' = stderr \o SomeError_fmt(error, TRUE) \o <<NL>>
    /\ status' = 0
    /\ pc' = "exit"
    /\ UNCHANGED <<prog, args, text, readable, bin_name, sel, consumed, input, elves,
                   max_calories, max_calorie_sum, matches, strategies, matches_score,
                   strategic_score, error, stdout, top, alternate, fmt_out>>

\* with: eprintln!("{error:#}"); process::exit(1).
WithErr ==
    /\ pc = "failed"
    /\ stderr' = stderr \o SomeError_fmt(error, TRUE) \o <<NL>>
    /\ status' = 1
    /\ pc' = "exit"
    /\ UNCHANGED <<prog, args, text, readable, bin_name, sel, consumed, input, elves,
                   max_calories, max_calorie_sum, matches, strategies, matches_score,
                   strategic_score, error, stdout, top, alternate, fmt_out>>

\* with: the closure returned Ok(()), main returns and the process exits with 0.
WithOk ==
    /\ pc = "returned"
    /\ status' = 0
    /\ pc' = "exit"
    /\ UNCHANGED <<prog, args, text, readable, bin_name, sel, consumed, input, elves,
                   max_calories, max_calorie_sum, matches, strategies, matches_score,
                   strategic_score, error, stdout, stderr, top, alternate, fmt_out>>

(***************************************************************************)
(* The closure of calorie-counting.                                        *)
(***************************************************************************)
\* let elves = Elves::try_from(&input)?;
TryFrom ==
    /\ pc = "main"
    /\ prog = CALORIE
    /\ LET r == Elves_try_from(input)
       IN  IF r.ok
           THEN /\ elves' = r.elves
                /\ pc' = "try_from"
                /\ error' = error
           ELSE /\ error' = <<CalParseError_fmt, ParseIntError_fmt(r.kind)>>
                /\ pc' = "failed"
                /\ elves' = elves
    /\ UNCHANGED <<prog, args, text, readable, bin_name, sel, consumed, input,
                   max_calories, max_calorie_sum, matches, strategies, matches_score,
                   strategic_score, stdout, stderr, status, top, alternate, fmt_out>>

PanicUnwrap ==
    <<Lit("thread 'main' panicked: called Option::unwrap() on a None value"), NL>>

\* let max_calories = elves.max_calories();  A panic ends the process with 101.
MaxCalories ==
    /\ pc = "try_from"
    /\ LET r == Elves_max_calories(elves)
       IN  IF r.panicked
           THEN /\ stderr' = stderr \o PanicUnwrap
                /\ status' = 101
                /\ pc' = "exit"
                /\ max_calories' = max_calories
           ELSE /\ max_calories' = r.val
                /\ pc' = "max_calories"
                /\ UNCHANGED <<stderr, status>>
    /\ UNCHANGED <<prog, args, text, readable, bin_name, sel, consumed, input, elves,
                   max_calorie_sum, matches, strategies, matches_score, strategic_score,
                   error, stdout, top, alternate, fmt_out>>

\* let max_calorie_sum = elves.max_calorie_sum(3);
MaxCalorieSum ==
    /\ pc = "max_calories"
    /\ max_calorie_sum' = Elves_max_calorie_sum(elves, top)
    /\ pc' = "max_calorie_sum"
    /\ UNCHANGED <<prog, args, text, readable, bin_name, sel, consumed, input, elves,
                   max_calories, matches, strategies, matches_score, strategic_score,
                   error, stdout, stderr, status, top, alternate, fmt_out>>

\* println!("{max_calories}"); println!("{max_calorie_sum}"); Ok(())
CalorieResults ==
    /\ pc = "max_calorie_sum"
    /\ stdout' = stdout \o <<Arg(FmtU64(max_calories)), NL,
                             Arg(FmtU64(max_calorie_sum)), NL>>
    /\ pc' = "returned"
    /\ UNCHANGED <<prog, args, text, readable, bin_name, sel, consumed, input, elves,
                   max_calories, max_calorie_sum, matches, strategies, matches_score,
                   strategic_score, error, stderr, status, top, alternate, fmt_out>>

(***************************************************************************)
(* The closure of rock-paper-scissors.                                     *)
(***************************************************************************)
\* let matches_score = input.parse::<Matches<Match>>()?.score();
ParseMatches ==
    /\ pc = "main"
    /\ prog = RPS
    /\ LET r == Matches_Match_from_str(input)
       IN  IF r.ok
           THEN /\ matches' = r.rows
                /\ matches_score' = Matches_Match_score(r.rows)
                /\ pc' = "matches"
                /\ error' = error
           ELSE /\ error' = <<RpsParseError_fmt(r.invalid)>>
                /\ pc' = "failed"
                /\ UNCHANGED <<matches, matches_score>>
    /\ UNCHANGED <<prog, args, text, readable, bin_name, sel, consumed, input, elves,
                   max_calories, max_calorie_sum, strategies, strategic_score,
                   stdout, stderr, status, top, alternate, fmt_out>>

\* let strategic_score = input.parse::<Matches<Strategy>>()?.score();
ParseStrategies ==
    /\ pc = "matches"
    /\ LET r == Matches_Strategy_from_str(input)
       IN  IF r.ok
           THEN /\ strategies' = r.rows
                /\ strategic_score' = Matches_Strategy_score(r.rows)
                /\ pc' = "strategies"
                /\ error' = error
           ELSE /\ error' = <<RpsParseError_fmt(r.invalid)>>
                /\ pc' = "failed"
                /\ UNCHANGED <<strategies, strategic_score>>
    /\ UNCHANGED <<prog, args, text, readable, bin_name, sel, consumed, input, elves,
                   max_calories, max_calorie_sum, matches, matches_score,
                   stdout, stderr, status, top, alternate, fmt_out>>

\* println!("{matches_score}"); println!("{strategic_score}"); Ok(())
RpsResults ==
    /\ pc = "strategies"
    /\ stdout' = stdout \o <<Arg(FmtU64(matches_score)), NL,
                             Arg(FmtU64(strategic_score)), NL>>
    /\ pc' = "returned"
    /\ UNCHANGED <<prog, args, text, readable, bin_name, sel, consumed, input, elves,
                   max_calories, max_calorie_sum, matches, strategies, matches_score,
                   strategic_score, error, stderr, status, top, alternate, fmt_out>>

Next ==
    \/ FromArgs
    \/ DisplayHelp
    \/ ReadToString
    \/ TryFrom
    \/ MaxCalories
    \/ MaxCalorieSum
    \/ CalorieResults
    \/ ParseMatches
    \/ ParseStrategies
    \/ RpsResults
    \/ WithErr
    \/ WithOk

Spec == Init /\ [][Next]_vars

(***************************************************************************)
(* Elves::max_calorie_sum on its own: any groups, any K >= 1.              *)
(***************************************************************************)
ElfPool == {<<>>} \cup {<<c>> : c \in 0..MaxCal} \cup {<<1, MaxCal>>}

InitTopK ==
    /\ pc = "top_k"
    /\ elves \in SeqsUpTo(ElfPool, MaxElves)
    /\ top \in 1..MaxTop
    /\ prog = CALORIE /\ args = <<>> /\ text = <<>> /\ readable = TRUE
    /\ bin_name = "" /\ sel = [tag |-> "", file |-> ""] /\ consumed = FALSE
    /\ input = <<>> /\ max_calories = 0 /\ max_calorie_sum = 0
    /\ matches = <<>> /\ strategies = <<>> /\ matches_score = 0 /\ strategic_score = 0
    /\ error = <<>> /\ stdout = <<>> /\ stderr = <<>> /\ status = RUNNING
    /\ alternate = TRUE
    /\ fmt_out = <<>>

\* elves.max_calorie_sum(top)
CallMaxCalorieSum ==
    /\ pc = "top_k"
    /\ max_calorie_sum' = Elves_max_calorie_sum(elves, top)
    /\ pc' = "top_k_done"
    /\ UNCHANGED <<prog, args, text, readable, bin_name, sel, consumed, input, elves,
                   max_calories, matches, strategies, matches_score, strategic_score,
                   error, stdout, stderr, status, top, alternate, fmt_out>>

NextTopK == CallMaxCalorieSum

SpecTopK == InitTopK /\ [][NextTopK]_vars

(***************************************************************************)
(* Display for SomeError on its own: any chain of messages, both modes.    *)
(***************************************************************************)
NoArgsMessage ==
    NoInput_fmt([tag |-> "NoArgs", description |-> Description(CALORIE)])

MessagePool ==
    {NoArgsMessage,
     IoError_fmt([tag |-> "Stdin", file |-> ""]),
     OsError_fmt,
     CalParseError_fmt,
     ParseIntError_fmt("InvalidDigit"),
     RpsParseError_fmt(<<"A">>)}

Chains == UNION {[1..k -> MessagePool] : k \in 1..(MaxCauses + 1)}

InitFmt ==
    /\ pc = "fmt"
    /\ error \in Chains
    /\ alternate \in BOOLEAN
    /\ fmt_out = <<>>
    /\ prog = CALORIE /\ args = <<>> /\ text = <<>> /\ readable = TRUE
    /\ bin_name = "" /\ sel = [tag |-> "", file |-> ""] /\ consumed = FALSE
    /\ input = <<>> /\ elves = <<>> /\ max_calories = 0 /\ max_calorie_sum = 0
    /\ matches = <<>> /\ strategies = <<>> /\ matches_score = 0 /\ strategic_score = 0
    /\ stdout = <<>> /\ stderr = <<>> /\ status = RUNNING
    /\ top = 3

\* format!("{error}") or format!("{error:#}")
FormatSomeError ==
    /\ pc = "fmt"
    /\ fmt_out' = SomeError_fmt(error, alternate)
    /\ pc' = "fmt_done"
    /\ UNCHANGED <<prog, args, text, readable, bin_name, sel, consumed, input, elves,
                   max_calories, max_calorie_sum, matches, strategies, matches_score,
                   strategic_score, error, stdout, stderr, status, top, alternate>>

NextFmt == FormatSomeError

SpecFmt == InitFmt /\ [][NextFmt]_vars

(***************************************************************************)
(* Properties.                                                             *)
(***************************************************************************)
Range(f) == {f[i] : i \in DOMAIN f}

\* The read succeeded and the solver's parse did (for rock-paper-scissors: the
\* parse that pc stands behind).
ParsedOk == consumed /\ error = <<>> /\ pc # "main"

\* The read succeeded and a parse failed.
ParseFailed == consumed /\ readable /\ error # <<>>

\* The groups of a text whose lines are empty or digits: each empty line closes
\* the group before it, and the lines after the last empty line form a group too.
RECURSIVE GroupRuns(_, _)
GroupRuns(lines, cur) ==
    IF lines = <<>> THEN (IF cur = <<>> THEN <<>> ELSE <<cur>>)
    ELSE IF Head(lines) = <<>> THEN <<cur>> \o GroupRuns(Tail(lines), <<>>)
    ELSE GroupRuns(Tail(lines), Append(cur, DigitsVal(Head(lines), 0)))

AllDigitLines(chars) ==
    \A i \in 1..Len(Lines(chars)) : Range(Lines(chars)[i]) \subseteq Digits

\* C1: for a text whose lines are each empty or an unsigned integer, try_from
\* returns the groups in input order, the final run of non-empty lines included;
\* on "3\n4\n\n5\n\n6\n7\n8\n" the program prints 21 and 33.
C1_TrailingGroupIncluded ==
    (prog = CALORIE /\ consumed /\ readable /\ pc # "main" /\ AllDigitLines(input)) =>
        /\ error = <<>>
        /\ elves = GroupRuns(Lines(input), <<>>)
        /\ (input = ExampleText /\ pc = "exit") =>
               stdout = <<Arg("21"), NL, Arg("33"), NL>>

\* The K largest of a sequence of sums, duplicates counted separately.
RECURSIVE RemoveOne(_, _)
RemoveOne(xs, x) ==
    IF xs = <<>> THEN <<>>
    ELSE IF Head(xs) = x THEN Tail(xs)
    ELSE <<Head(xs)>> \o RemoveOne(Tail(xs), x)

RECURSIVE SumOfLargest(_, _)
SumOfLargest(xs, k) ==
    IF k = 0 \/ xs = <<>> THEN 0
    ELSE LET m == CHOOSE x \in Range(xs) : \A y \in Range(xs) : y <= x
         IN  m + SumOfLargest(RemoveOne(xs, m), k - 1)

\* C2: max_calorie_sum(K) is the sum of the K largest group sums, duplicates
\* counted separately, and the sum of all group sums when there are fewer than
\* K groups.
C2_SumOfTopK ==
    pc = "top_k_done" =>
        /\ max_calorie_sum = SumOfLargest(ElfSums(elves), top)
        /\ Len(elves) < top => max_calorie_sum = Sum(ElfSums(elves))

C2_Witness ==
    /\ pc = "top_k_done"
    /\ top = 2
    /\ elves = <<<<1>>, <<2>>, <<0>>, <<2>>>>
    /\ max_calorie_sum = 4

\* C3 as stated: match_with called on a with results_in(a, o) as the opponent
\* gives o, for the opponent hand a and the outcome o of every parsed row.
C3_AsStated ==
    \A i \in 1..Len(strategies) :
        match_with(strategies[i].opponent,
                   results_in(strategies[i].opponent, strategies[i].choice))
            = strategies[i].choice

\* C3, amended: match_with called on results_in(a, o) with a as the opponent
\* gives o, for the opponent hand a and the outcome o of every parsed row.
C3_InverseLaw ==
    \A i \in 1..Len(strategies) :
        match_with(results_in(strategies[i].opponent, strategies[i].choice),
                   strategies[i].opponent)
            = strategies[i].choice

C3_Witness ==
    /\ pc = "strategies"
    /\ strategies = <<[choice |-> "Loss", opponent |-> "Rock"],
                      [choice |-> "Win", opponent |-> "Scissors"]>>

TableSum(lines, col) == Sum([i \in 1..Len(lines) |-> LookupTable[Str(lines[i])][col]])

\* C4: each row scores, under Match::score and under Strategy::score, the two
\* values the description's table lists for it, and the two printed totals are
\* the sums of the rows' scores.
C4_ScoresMatchTable ==
    (prog = RPS /\ ParsedOk /\ pc # "matches") =>
        LET lines == Lines(input)
        IN  /\ Len(matches) = Len(lines) /\ Len(strategies) = Len(lines)
            /\ \A i \in 1..Len(lines) :
                /\ Match_score(matches[i]) = LookupTable[Str(lines[i])][1]
                /\ Strategy_score(strategies[i]) = LookupTable[Str(lines[i])][2]
            /\ matches_score = TableSum(lines, 1)
            /\ strategic_score = TableSum(lines, 2)
            /\ pc \in {"returned", "exit"} =>
                   stdout = <<Arg(FmtU64(TableSum(lines, 1))), NL,
                              Arg(FmtU64(TableSum(lines, 2))), NL>>

C4_Witness ==
    /\ pc = "exit"
    /\ input = <<"A", " ", "Y", "\n", "C", " ", "X", "\n">>
    /\ stdout = <<Arg("15"), NL, Arg("6"), NL>>

IsRow(line) ==
    /\ Len(line) = 3
    /\ line[1] \in {"A", "B", "C"}
    /\ line[2] = " "
    /\ line[3] \in {"X", "Y", "Z"}

\* The position of the first check that fails, left to right.
FailPos(line) ==
    IF Len(line) < 1 \/ line[1] \notin {"A", "B", "C"} THEN 0
    ELSE IF Len(line) < 2 \/ line[2] # " " THEN 1
    ELSE IF Len(line) < 3 \/ line[3] \notin {"X", "Y", "Z"} THEN 2
    ELSE 3

Suffix(line, k) == [i \in 1..(Len(line) - k) |-> line[i + k]]

FirstBad(lines) == CHOOSE i \in 1..Len(lines) :
    ~IsRow(lines[i]) /\ \A j \in 1..(i - 1) : IsRow(lines[j])

\* C5: a line is accepted iff it is one of A/B/C, a space, one of X/Y/Z; any
\* other line is rejected with the suffix of the line that starts at the first
\* failing check, and that suffix is what the ParseError shows.
C5_RowAcceptance ==
    (prog = RPS /\ consumed /\ readable /\ pc # "main") =>
        LET lines == Lines(input)
        IN  /\ \A i \in 1..Len(lines) :
                /\ Row_from_str(lines[i]).ok <=> IsRow(lines[i])
                /\ ~IsRow(lines[i]) =>
                       Row_from_str(lines[i]).invalid = Suffix(lines[i], FailPos(lines[i]))
            /\ (error = <<>>) <=> \A i \in 1..Len(lines) : IsRow(lines[i])
            /\ error # <<>> =>
                   error = << <<Lit("found invalid input '"),
                                Arg(Str(Suffix(lines[FirstBad(lines)],
                                               FailPos(lines[FirstBad(lines)])))),
                                Lit("'")>> >>

C5_Witness ==
    /\ pc = "exit"
    /\ input = <<"A">>
    /\ error = << <<Lit("found invalid input '"), Arg(""), Lit("'")>> >>
    /\ status = 1

HasToken == Len(args) >= 2
Token == args[2]

VersionLine(p) ==
    <<Arg(p), Lit(" "), Arg("0"), Lit("."), Arg("1"), Lit("."), Arg("0")>>

\* C6: the first token after the program name decides the input: --help/-h
\* prints the help and exits with 0 without reading; --version/-V exits with 0
\* without reading; --stdin/-0 selects standard input; after "--" the next token
\* is the file name whatever its text; any other token is the file name; with no
\* token the process exits with 1 and a usage message that names <FILE>.
C6_FirstTokenDecides ==
    pc # "start" =>
        /\ (HasToken /\ Token \in {"--help", "-h"}) =>
               /\ sel.tag = "Help"
               /\ ~consumed
               /\ pc = "exit" =>
                      /\ status = 0
                      /\ SubSeq(stdout, 1, 7) = VersionLine(prog)
                      /\ Arg(args[1]) \in Range(stdout)
                      /\ stdout[Len(stdout)] = NL
                      /\ stderr = <<>>
        /\ (HasToken /\ Token \in {"--version", "-V"}) =>
               /\ sel.tag = "Version"
               /\ ~consumed
               /\ pc = "exit" =>
                      status = 0 /\ stdout = VersionLine(prog) \o <<NL>> /\ stderr = <<>>
        /\ (HasToken /\ Token \in {"--stdin", "-0"}) => sel = [tag |-> "Stdin", file |-> ""]
        /\ (HasToken /\ Token = "--" /\ Len(args) >= 3) =>
               sel = [tag |-> "File", file |-> args[3]]
        /\ (HasToken /\ Token \notin
                {"--help", "-h", "--version", "-V", "--stdin", "-0", "--"}) =>
               sel = [tag |-> "File", file |-> Token]
        /\ ~HasToken =>
               /\ sel.tag = "NoArgs"
               /\ ~consumed
               /\ pc = "exit" =>
                      /\ status = 1
                      /\ Lit("<FILE>") \in Range(stderr)
                      /\ stdout = <<>>

C6_Witness ==
    /\ pc = "exit"
    /\ args = <<"aoc", "--", "--help">>
    /\ sel = [tag |-> "File", file |-> "--help"]
    /\ consumed
    /\ status = 0

SingleLine(m) == NL \notin Range(m)

RECURSIVE SumLineCounts(_)
SumLineCounts(ms) ==
    IF ms = <<>> THEN 0 ELSE LineCount(Head(ms)) + SumLineCounts(Tail(ms))

\* C7 as stated: the normal format is one line and the alternate format is
\* 1 + n lines for an error with n causes.
C7_AsStated ==
    pc = "fmt_done" =>
        LineCount(fmt_out) = IF alternate THEN Len(error) ELSE 1

\* C7, amended: the normal format is the wrapped error's message; the alternate
\* format is "error: <message>" and then one "  - <cause>" entry per cause, from
\* the immediate cause to the root, each ended by a line break.  That is 1 line
\* and 1 + n lines when every message is a single line; a message that spans
\* several lines keeps its line breaks.
C7_MessageThenCauses ==
    pc = "fmt_done" =>
        /\ ~alternate => fmt_out = error[1]
        /\ alternate =>
               /\ fmt_out = <<Lit("error: ")>> \o error[1] \o <<NL>>
                            \o Flatten([i \in 1..(Len(error) - 1) |->
                                   <<Lit("  - ")>> \o error[i + 1] \o <<NL>>])
               /\ LineCount(fmt_out) = SumLineCounts(error)
        /\ (\A i \in 1..Len(error) : SingleLine(error[i])) =>
               LineCount(fmt_out) = IF alternate THEN Len(error) ELSE 1

C7_Witness ==
    /\ pc = "fmt_done"
    /\ alternate
    /\ error = <<IoError_fmt([tag |-> "Stdin", file |-> ""]), OsError_fmt>>
    /\ LineCount(fmt_out) = 2

\* C8: when a non-empty line is not an unsigned integer, the error reported to
\* the user carries the text of that line.
C8_ErrorCarriesLine ==
    (prog = CALORIE /\ ParseFailed /\ pc = "exit") =>
        Arg(Str(Elves_try_from(input).line)) \in Range(stderr)

\* C9: every input that parses leads to two printed result lines: neither
\* max_calories nor max_calorie_sum fails.
C9_ReductionNeverFails ==
    (prog = CALORIE /\ ParsedOk /\ pc = "exit") =>
        /\ status = 0
        /\ LineCount(stdout) = 2
        /\ stderr = <<>>

AllParse ==
    IF prog = CALORIE THEN Elves_try_from(input).ok
    ELSE /\ Matches_Match_from_str(input).ok
         /\ Matches_Strategy_from_str(input).ok

\* C10: result lines are written only when the whole input has parsed; when a
\* line fails to parse nothing is written to standard output, the error goes to
\* standard error in the alternate format and the process exits with 1.
C10_NoPartialResults ==
    /\ (consumed /\ stdout # <<>>) => (error = <<>> /\ AllParse)
    /\ ParseFailed =>
           /\ ~AllParse
           /\ stdout = <<>>
           /\ pc \in {"failed", "exit"}
           /\ pc = "exit" =>
                  /\ status = 1
                  /\ stderr = <<Lit("error: ")>> \o error[1] \o <<NL>>
                              \o (IF Len(error) = 2
                                  THEN <<Lit("  - ")>> \o error[2] \o <<NL>>
                                  ELSE <<>>)
                              \o <<NL>>

C10_Witness ==
    /\ pc = "exit"
    /\ prog = RPS
    /\ input = <<"B", " ", "Z", "\n", "A", "\n">>
    /\ stdout = <<>>
    /\ status = 1
    /\ stderr # <<>>

====
